---- MODULE Spec2Model ----
(***************************************************************************)
(* A model of mailman_unblock.py: the run of main() (require_env, login,   *)
(* then process_letter for every letter), against a Mailman admin site     *)
(* whose answers are not under the program's control.                      *)
(*                                                                         *)
(* Text (names, values, visible text) is a sequence of one-character       *)
(* strings, so that lower(), endswith(), startswith() and the substring    *)
(* test "w in text" are computed as Python computes them.                  *)
(***************************************************************************)
EXTENDS Integers, Sequences, FiniteSets, TLC

\* ------------------------------------------------------------------ text

UpperChars == <<"A","B","C","D","E","F","G","H","I","J","K","L","M",
                "N","O","P","Q","R","S","T","U","V","W","X","Y","Z">>

LowerChars == <<"a","b","c","d","e","f","g","h","i","j","k","l","m",
                "n","o","p","q","r","s","t","u","v","w","x","y","z">>

\* str.lower() on one character
LowerCh(c) ==
    IF \E i \in 1..Len(UpperChars) : UpperChars[i] = c
    THEN LowerChars[CHOOSE i \in 1..Len(UpperChars) : UpperChars[i] = c]
    ELSE c

\* str.upper() on one character
UpperCh(c) ==
    IF \E i \in 1..Len(LowerChars) : LowerChars[i] = c
    THEN UpperChars[CHOOSE i \in 1..Len(LowerChars) : LowerChars[i] = c]
    ELSE c

\* str.lower()
Lower(s) == [i \in 1..Len(s) |-> LowerCh(s[i])]

\* Python's "w in s" on strings
Contains(s, w) ==
    \E i \in 0..(Len(s) - Len(w)) : SubSeq(s, i + 1, i + Len(w)) = w

\* str.endswith
EndsWith(s, suf) ==
    /\ Len(suf) <= Len(s)
    /\ SubSeq(s, Len(s) - Len(suf) + 1, Len(s)) = suf

\* str.startswith
StartsWith(s, pre) ==
    /\ Len(pre) <= Len(s)
    /\ SubSeq(s, 1, Len(pre)) = pre

\* The literals of the source.
sUser == <<"u","s","e","r">>
sAdminpw == <<"a","d","m","i","n","p","w">>
sNomailSuffix == <<"_","n","o","m","a","i","l">>
sOn == <<"o","n">>
sSubmitLower == <<"s","u","b","m","i","t">>
sSubmitCap == <<"S","u","b","m","i","t">>
sUnknown == <<"(","u","n","k","n","o","w","n",")">>
sSubmitYourChanges == <<"s","u","b","m","i","t"," ","y","o","u","r"," ",
                        "c","h","a","n","g","e","s">>
sChange == <<"c","h","a","n","g","e">>
sApply == <<"a","p","p","l","y">>
sUpdate == <<"u","p","d","a","t","e">>
sSetmember == <<"s","e","t","m","e","m","b","e","r">>
sSearch == <<"s","e","a","r","c","h">>
sFindmember == <<"f","i","n","d","m","e","m","b","e","r">>
sClear == <<"c","l","e","a","r">>
sReset == <<"r","e","s","e","t">>
sRemove == <<"r","e","m","o","v","e">>
sProcess == <<"p","r","o","c","e","s","s">>

\* ------------------------------------------------------------ HTML elements

(* One field-producing element of a parsed document, in document order.    *)
(* name = <<>> is a missing or empty name attribute (the source tests only *)
(* "not name"); hasValue FALSE is an absent value attribute.               *)
(* row is the enclosing <tr> (0: none); sibs are the stripped texts of the *)
(* element's next siblings; hasTd/tdText the enclosing <td> and its text.  *)
Element ==
    [tag |-> "input", type |-> "text", name |-> <<>>, hasValue |-> FALSE,
     value |-> <<>>, checked |-> FALSE, row |-> 0, sibs |-> <<>>,
     hasTd |-> FALSE, tdText |-> <<>>, multiple |-> FALSE, options |-> <<>>,
     text |-> <<>>]

Hidden(n, v, r) ==
    [Element EXCEPT !.type = "hidden", !.name = n, !.hasValue = TRUE,
                    !.value = v, !.row = r]

Checkbox(n, v, hasV, isChecked, r, sibl, td) ==
    [Element EXCEPT !.type = "checkbox", !.name = n, !.hasValue = hasV,
                    !.value = v, !.checked = isChecked, !.row = r,
                    !.sibs = sibl, !.hasTd = TRUE, !.tdText = td]

SubmitButton(n, v) ==
    [Element EXCEPT !.type = "submit", !.name = n, !.hasValue = TRUE,
                    !.value = v]

Textarea(n, t) ==
    [Element EXCEPT !.tag = "textarea", !.type = "", !.name = n, !.text = t]

Option(v, hasV, t, sel) ==
    [value |-> v, hasValue |-> hasV, text |-> t, selected |-> sel]

Select(n, multi, opts) ==
    [Element EXCEPT !.tag = "select", !.type = "", !.name = n,
                    !.multiple = multi, !.options = opts]

\* tag.get("value", "")
GetValue(e) == IF e.hasValue THEN e.value ELSE <<>>

\* ------------------------------------------------- collect_payload_pairs

\* Mutant: a checked box without a value is sent with the empty value.
InputPairsNoDefault(e) ==
    IF e.tag # "input" \/ e.name = <<>> THEN <<>>
    ELSE IF e.type \in {"submit", "image", "button", "file"} THEN <<>>
    ELSE IF e.type \in {"checkbox", "radio"}
         THEN IF e.checked THEN << <<e.name, GetValue(e)>> >> ELSE <<>>
    ELSE << <<e.name, GetValue(e)>> >>

InputPairs(e) ==
    IF e.tag # "input" \/ e.name = <<>> THEN <<>>
    ELSE IF e.type \in {"submit", "image", "button", "file"} THEN <<>>
    ELSE IF e.type \in {"checkbox", "radio"}
         THEN IF e.checked
              THEN << <<e.name, IF GetValue(e) # <<>> THEN GetValue(e) ELSE sOn>> >>
              ELSE <<>>
    ELSE << <<e.name, GetValue(e)>> >>

TextareaPairs(e) ==
    IF e.tag # "textarea" \/ e.name = <<>> THEN <<>>
    ELSE << <<e.name, e.text>> >>

\* opt.get("value", opt.text or "")
OptionValue(o) == IF o.hasValue THEN o.value ELSE o.text

RECURSIVE OptionPairs(_, _)
OptionPairs(n, opts) ==
    IF opts = <<>> THEN <<>>
    ELSE << <<n, OptionValue(Head(opts))>> >> \o OptionPairs(n, Tail(opts))

\* Mutant: a single select without a selected option is not sent.
SelectPairsSelectedOnly(e) ==
    IF e.tag # "select" \/ e.name = <<>> THEN <<>>
    ELSE LET selected == SelectSeq(e.options, LAMBDA o : o.selected)
         IN  IF e.multiple THEN OptionPairs(e.name, selected)
             ELSE IF selected # <<>>
                  THEN << <<e.name, OptionValue(selected[1])>> >>
             ELSE <<>>

SelectPairs(e) ==
    IF e.tag # "select" \/ e.name = <<>> THEN <<>>
    ELSE LET selected == SelectSeq(e.options, LAMBDA o : o.selected)
         IN  IF e.multiple THEN OptionPairs(e.name, selected)
             ELSE IF selected # <<>>
                  THEN << <<e.name, OptionValue(selected[1])>> >>
             ELSE IF e.options # <<>>
                  THEN << <<e.name, OptionValue(e.options[1])>> >>
             ELSE <<>>

\* The pairs one element contributes to one of the three find_all passes.
ElemPairs(pass, e) ==
    CASE pass = "input" -> InputPairs(e)
      [] pass = "textarea" -> TextareaPairs(e)
      [] pass = "select" -> SelectPairs(e)

RECURSIVE PairsOf(_, _)
PairsOf(pass, es) ==
    IF es = <<>> THEN <<>>
    ELSE ElemPairs(pass, Head(es)) \o PairsOf(pass, Tail(es))

collect_payload_pairs(form) ==
    PairsOf("input", form.elems)
        \o PairsOf("textarea", form.elems)
        \o PairsOf("select", form.elems)

\* ------------------------------------------------ _nomail_reason_from_box

NoReason == "None"

\* The letter a sibling's text yields, or NoReason.
SiblingReason(txt) ==
    IF /\ StartsWith(txt, <<"[">>)
       /\ Contains(txt, <<"]">>)
       /\ UpperCh(txt[2]) \in {"A", "B", "U"}
    THEN UpperCh(txt[2])
    ELSE NoReason

\* for s in sibs[:3]: the first sibling that yields a letter
RECURSIVE FirstSiblingReason(_)
FirstSiblingReason(sibl) ==
    IF sibl = <<>> THEN NoReason
    ELSE IF SiblingReason(Head(sibl)) # NoReason THEN SiblingReason(Head(sibl))
    ELSE FirstSiblingReason(Tail(sibl))

\* Fallback: for ch in ('A', 'B', 'U'): "[ch]" in the cell's text
CellReason(box) ==
    IF ~box.hasTd THEN NoReason
    ELSE IF Contains(box.tdText, <<"[", "A", "]">>) THEN "A"
    ELSE IF Contains(box.tdText, <<"[", "B", "]">>) THEN "B"
    ELSE IF Contains(box.tdText, <<"[", "U", "]">>) THEN "U"
    ELSE NoReason

nomail_reason_from_box(box) ==
    LET first3 == SubSeq(box.sibs, 1, IF Len(box.sibs) < 3 THEN Len(box.sibs) ELSE 3)
    IN  IF FirstSiblingReason(first3) # NoReason
        THEN FirstSiblingReason(first3)
        ELSE CellReason(box)

\* ----------------------------------------- find_blocked_rows_with_reasons

IsUserInput(e) == e.tag = "input" /\ e.name = sUser

\* form.select("input[type='checkbox'][name$='_nomail'][checked]")
IsBlockedBox(e) ==
    /\ e.tag = "input"
    /\ e.type = "checkbox"
    /\ EndsWith(e.name, sNomailSuffix)
    /\ e.checked

\* tr.find("input", attrs={"name": "user"}): position of the first one in the
\* row of the box, 0 when the box has no row or the row has none
UserInRow(es, i) ==
    IF es[i].row = 0 THEN 0
    ELSE LET hits == {j \in 1..Len(es) : IsUserInput(es[j]) /\ es[j].row = es[i].row}
         IN  IF hits = {} THEN 0
             ELSE CHOOSE j \in hits : \A k \in hits : j <= k

\* box.find_next("input", attrs={"name": "user"})
UserAfter(es, i) ==
    LET hits == {j \in (i + 1)..Len(es) : IsUserInput(es[j])}
    IN  IF hits = {} THEN 0
        ELSE CHOOSE j \in hits : \A k \in hits : j <= k

\* Mutant: the value of the "user" field found is taken as it is.
BoxAddressAsFound(es, i) ==
    LET inRow == UserInRow(es, i)
        after == UserAfter(es, i)
    IN  IF inRow # 0 /\ GetValue(es[inRow]) # <<>> THEN GetValue(es[inRow])
        ELSE IF after # 0 THEN GetValue(es[after])
        ELSE sUnknown

\* The address of the box at position i.
BoxAddress(es, i) ==
    LET inRow == UserInRow(es, i)
        after == UserAfter(es, i)
    IN  IF inRow # 0 /\ GetValue(es[inRow]) # <<>> THEN GetValue(es[inRow])
        ELSE IF after # 0 /\ GetValue(es[after]) # <<>> THEN GetValue(es[after])
        ELSE sUnknown

RECURSIVE BlockedRowsFrom(_, _)
BlockedRowsFrom(es, i) ==
    IF i > Len(es) THEN <<>>
    ELSE (IF IsBlockedBox(es[i])
          THEN << <<es[i].name, BoxAddress(es, i), nomail_reason_from_box(es[i])>> >>
          ELSE <<>>)
         \o BlockedRowsFrom(es, i + 1)

\* A sequence of (checkbox_name, address, reason_letter)
find_blocked_rows_with_reasons(form) == BlockedRowsFrom(form.elems, 1)

\* ------------------------------------------------------ submit controls

IsNamedSubmit(e) == e.tag = "input" /\ e.type = "submit" /\ e.name # <<>>

\* inp.get("value") or "Submit"
ValueOrSubmit(e) == IF GetValue(e) # <<>> THEN GetValue(e) ELSE sSubmitCap

\* Mutant: the first submit input is taken, named or not.
pick_submit_control_any(form) ==
    LET hits == {j \in 1..Len(form.elems) :
                    form.elems[j].tag = "input" /\ form.elems[j].type = "submit"}
    IN  IF hits = {} THEN <<sSubmitLower, sSubmitCap>>
        ELSE LET j == CHOOSE j \in hits : \A k \in hits : j <= k
             IN  <<form.elems[j].name, ValueOrSubmit(form.elems[j])>>

pick_submit_control(form) ==
    LET hits == {j \in 1..Len(form.elems) : IsNamedSubmit(form.elems[j])}
    IN  IF hits = {} THEN <<sSubmitLower, sSubmitCap>>
        ELSE LET j == CHOOSE j \in hits : \A k \in hits : j <= k
             IN  <<form.elems[j].name, ValueOrSubmit(form.elems[j])>>

\* The score pick_members_submit gives one named submit input.
MembersScore(e) ==
    LET text == Lower(e.name \o <<" ">> \o GetValue(e))
    IN  (IF \E w \in {sSubmitYourChanges, sSubmitLower, sChange, sApply,
                      sUpdate, sSetmember} : Contains(text, w)
         THEN 5 ELSE 0)
        - (IF Contains(text, sSearch) \/ Contains(text, sFindmember)
           THEN 10 ELSE 0)
        + (IF Contains(text, sSetmember) THEN 3 ELSE 0)

\* Mutant: of the candidates of the highest score, the last one is taken.
pick_members_submit_last(form) ==
    LET es == form.elems
        cands == {j \in 1..Len(es) : IsNamedSubmit(es[j])}
    IN  IF cands = {} THEN pick_submit_control(form)
        ELSE LET best == CHOOSE j \in cands :
                            \A k \in cands :
                                \/ MembersScore(es[j]) > MembersScore(es[k])
                                \/ MembersScore(es[j]) = MembersScore(es[k]) /\ j >= k
             IN  <<es[best].name, ValueOrSubmit(es[best])>>

\* candidates.sort(key=score, reverse=True) is stable: the first candidate
\* of the highest score comes first.
pick_members_submit(form) ==
    LET es == form.elems
        cands == {j \in 1..Len(es) : IsNamedSubmit(es[j])}
    IN  IF cands = {} THEN pick_submit_control(form)
        ELSE LET best == CHOOSE j \in cands :
                            \A k \in cands :
                                \/ MembersScore(es[j]) > MembersScore(es[k])
                                \/ MembersScore(es[j]) = MembersScore(es[k]) /\ j <= k
             IN  <<es[best].name, ValueOrSubmit(es[best])>>

\* The first named submit whose name and value hold a clearing word, else
\* the first named submit (with its raw value), else ("submit", "Submit").
pick_bounce_submit(form) ==
    LET es == form.elems
        cands == {j \in 1..Len(es) : IsNamedSubmit(es[j])}
        clearing == {j \in cands :
                        \E w \in {sClear, sReset, sRemove, sProcess} :
                            Contains(Lower(es[j].name \o <<" ">> \o GetValue(es[j])), w)}
    IN  IF clearing # {}
        THEN LET j == CHOOSE j \in clearing : \A k \in clearing : j <= k
             IN  <<es[j].name, ValueOrSubmit(es[j])>>
        ELSE IF cands # {}
        THEN LET j == CHOOSE j \in cands : \A k \in cands : j <= k
             IN  <<es[j].name, GetValue(es[j])>>
        ELSE <<sSubmitLower, sSubmitCap>>

\* ------------------------------------------------------------- helpers

\* [(k, v) for (k, v) in pairs if k not in names]
WithoutNames(pairs, names) == SelectSeq(pairs, LAMBDA p : p[1] \notin names)

\* set(...) of a sequence
Range(seq) == {seq[i] : i \in 1..Len(seq)}

\* urllib.parse.urljoin, a library function, kept symbolic
Urljoin(current_url, action) == <<"urljoin", current_url, action>>

absolutize_action(form_action, current_url) ==
    IF form_action = <<>> THEN current_url
    ELSE Urljoin(current_url, form_action)

\* Mutant: the target keeps every blocked row, whatever its reason.
BounceTargetsAnyReason(rows) == rows

\* target = [(n, a) for (n, a, r) in blocked_rows if r == 'B']
BounceTargets(rows) == SelectSeq(rows, LAMBDA row : row[3] = "B")

Column(rows, k) == [i \in 1..Len(rows) |-> rows[i][k]]

\* ------------------------------------------------------- the remote site

NoForm == [present |-> FALSE, action |-> <<>>, method |-> "", elems |-> <<>>]

Form(action, method, elems) ==
    [present |-> TRUE, action |-> action, method |-> method, elems |-> elems]

aAlice == <<"a", "@", "x">>
aBob == <<"b", "@", "x">>
aCarol == <<"c", "@", "x">>
sOff == <<"o", "f", "f">>
sCsrf == <<"c", "s", "r", "f">>
sTokB == <<"[", "B", "]">>
sTokA == <<"[", "A", "]">>
sTokU == <<"[", "U", "]">>
sMembersAction == <<".", ".", "/", "m", "e", "m", "b", "e", "r", "s">>
sBounceAction == <<".", ".", "/", "b", "o", "u", "n", "c", "e">>
sFindBtn == <<"f", "i", "n", "d", "m", "e", "m", "b", "e", "r", "_", "b", "t", "n">>
sSearchVal == <<"S", "e", "a", "r", "c", "h", ".", ".", ".">>
sSetBtn == <<"s", "e", "t", "m", "e", "m", "b", "e", "r", "o", "p", "t", "s", "_", "b", "t", "n">>
sSetVal == <<"S", "u", "b", "m", "i", "t", " ", "Y", "o", "u", "r", " ",
             "C", "h", "a", "n", "g", "e", "s">>
sClearBtn == <<"c", "l", "e", "a", "r", "_", "b", "t", "n">>
sClearVal == <<"C", "l", "e", "a", "r">>
sPassword == <<"s", "3", "c", "r", "3", "t">>

\* The csrf token the members page carries after n submissions.
Token(n) == <<"t", IF n = 0 THEN "0" ELSE IF n = 1 THEN "1" ELSE "2">>

(* One member row of the Members page as Mailman 2.1 renders it: the       *)
(* hidden "user" field, then the <addr>_nomail checkbox, checked with the  *)
(* reason token after it when delivery is disabled. hasUser FALSE is a row *)
(* whose <tr> holds no "user" field (the case find_next is there for).     *)
MemberRow(r, addr, token, hasUser, disabled) ==
    (IF hasUser THEN <<Hidden(sUser, addr, r)>> ELSE <<>>)
    \o <<Checkbox(addr \o sNomailSuffix, sOff, TRUE, disabled, r,
                  IF disabled THEN <<token>> ELSE <<>>,
                  IF disabled THEN token ELSE <<>>)>>

\* The rows of each page shape: <<address, reason token, hasUser>>.
\* "nosub" is a page whose only submit input has no name; on "late" the
\* second member's delivery is disabled by bounce processing during the run.
RowsOf(tpl) ==
    CASE tpl = "BB" -> << <<aAlice, sTokB, TRUE>>, <<aBob, sTokB, TRUE>> >>
      [] tpl = "BA" -> << <<aAlice, sTokB, TRUE>>, <<aBob, sTokA, TRUE>> >>
      [] tpl = "UB" -> << <<aAlice, sTokU, TRUE>>, <<aBob, sTokB, TRUE>>,
                          <<aCarol, <<>>, TRUE>> >>
      [] tpl = "fwd" -> << <<aAlice, sTokB, FALSE>>, <<aBob, sTokA, TRUE>> >>
      [] tpl = "none" -> << <<aAlice, sTokB, TRUE>> >>
      [] tpl = "nosub" -> << <<aAlice, sTokB, TRUE>> >>
      [] tpl = "late" -> << <<aAlice, sTokB, TRUE>>, <<aBob, sTokB, TRUE>> >>

\* The rows whose delivery is disabled when the run starts.
InitiallyDisabled(tpl) ==
    CASE tpl = "BB" -> {1, 2}
      [] tpl = "BA" -> {1, 2}
      [] tpl = "UB" -> {1, 2, 3}
      [] tpl = "fwd" -> {1, 2}
      [] tpl = "none" -> {}
      [] tpl = "nosub" -> {1}
      [] tpl = "late" -> {1}

Templates == {"BB", "BA", "UB", "fwd", "none", "nosub", "late"}

\* The sites the run is tried against: the page shape of each letter.
Sites ==
    { [a |-> "BB", b |-> "BA"], [a |-> "BA", b |-> "UB"], [a |-> "UB", b |-> "fwd"],
      [a |-> "fwd", b |-> "none"], [a |-> "none", b |-> "BB"],
      [a |-> "nosub", b |-> "late"], [a |-> "late", b |-> "nosub"] }

RECURSIVE RenderRows(_, _, _)
RenderRows(rows, r, disabled) ==
    IF r > Len(rows) THEN <<>>
    ELSE MemberRow(r, rows[r][1], rows[r][2], rows[r][3], r \in disabled)
         \o RenderRows(rows, r + 1, disabled)

\* The Members page of one letter, given the server's state for it.
MembersForm(s) ==
    Form(sMembersAction, "post",
         <<Hidden(sCsrf, Token(s.tok), 0)>>
         \o (IF s.tpl = "nosub" THEN <<>> ELSE <<SubmitButton(sFindBtn, sSearchVal)>>)
         \o RenderRows(RowsOf(s.tpl), 1, s.disabled)
         \o <<SubmitButton(IF s.tpl = "nosub" THEN <<>> ELSE sSetBtn, sSetVal)>>)

\* The rows whose checkbox a submitted payload leaves out: the members the
\* server is asked to enable.
Unchecked(s, pairs) ==
    {r \in s.disabled :
        \A i \in 1..Len(pairs) : pairs[i][1] # RowsOf(s.tpl)[r][1] \o sNomailSuffix}

\* The Bounce page: no form, or a form with one "user" field per member
\* with bounce information.
BouncePages ==
    { NoForm,
      Form(sBounceAction, "post",
           <<Hidden(sCsrf, Token(0), 0), Hidden(sUser, aAlice, 1),
             Hidden(sUser, aBob, 2), SubmitButton(sClearBtn, sClearVal)>>),
      Form(<<>>, "post",
           <<Hidden(sCsrf, Token(0), 0), Hidden(sUser, aCarol, 1),
             SubmitButton(sClearBtn, sClearVal)>>) }

\* What the Members URL answers before login: the admin password form, or
\* the Members page itself (already authenticated, no adminpw field).
LoginPages ==
    { [form |-> Form(<<>>, "post",
                     <<[Element EXCEPT !.type = "password", !.name = sAdminpw],
                       SubmitButton(<<"a", "d", "m", "l", "o", "g", "i", "n">>,
                                    <<"L", "e", "t", " ", "m", "e", " ", "i", "n">>)>>),
       pw_field |-> TRUE],
      [form |-> Form(sMembersAction, "get",
                     <<Hidden(sCsrf, Token(0), 0),
                       [Element EXCEPT !.type = "password", !.name = sAdminpw]>>),
       pw_field |-> TRUE],
      [form |-> Form(sMembersAction, "post", <<Hidden(sCsrf, Token(0), 0)>>),
       pw_field |-> FALSE],
      [form |-> NoForm, pw_field |-> FALSE] }

\* ------------------------------------------------------------- login()

\* data.setdefault(k, v) and data[k] = v on an insertion-ordered dict
DictHas(data, k) == \E i \in 1..Len(data) : data[i][1] = k

DictSetDefault(data, k, v) == IF DictHas(data, k) THEN data ELSE Append(data, <<k, v>>)

DictSet(data, k, v) ==
    IF DictHas(data, k)
    THEN [i \in 1..Len(data) |-> IF data[i][1] = k THEN <<k, v>> ELSE data[i]]
    ELSE Append(data, <<k, v>>)

RECURSIVE LoginDefaults(_, _)
LoginDefaults(es, data) ==
    IF es = <<>> THEN data
    ELSE LET inp == Head(es)
             val == GetValue(inp)
         IN  IF inp.tag # "input" \/ inp.name = <<>> \/ inp.type \in {"submit", "image"}
             THEN LoginDefaults(Tail(es), data)
             ELSE IF inp.type = "checkbox"
             THEN IF inp.checked
                  THEN LoginDefaults(Tail(es),
                           DictSetDefault(data, inp.name, IF val # <<>> THEN val ELSE sOn))
                  ELSE LoginDefaults(Tail(es), data)
             ELSE LoginDefaults(Tail(es), DictSetDefault(data, inp.name, val))

\* The payload of the login form, data["adminpw"] = ADMINPW last.
LoginData(form) == DictSet(LoginDefaults(form.elems, <<>>), sAdminpw, sPassword)

\* ------------------------------------------------------------ the run

\* The letters of the run, as letters_from_args gives them for
\* --letters aab...: a letter may occur twice.
NumLetters == 2

LetterNames == {"a", "b"}

letters == [i \in 1..NumLetters |-> IF i <= 2 THEN "a" ELSE "b"]

\* The three environment values: unset, set to "", or set.
EnvValues == {"unset", "empty", "set"}

\* requests.HTTPError (raise_for_status), or any other exception of a
\* request (a timeout, a connection error)
Failures == {"HTTPError", "Exception"}

members_url == <<"members">>
bounce_url == <<"bounce">>
PageUrl(letter) == <<"members?letter=", letter>>

\* The local variables of process_letter and clear_bounces_for_users.
NoFrame ==
    [letter |-> "", form |-> NoForm, r_url |-> <<>>, blocked_rows |-> <<>>,
     blocked_names |-> <<>>, blocked_addrs |-> <<>>, before |-> 0,
     pairs |-> <<>>, post_url |-> <<>>, vform |-> NoForm, remaining |-> -1,
     target_addrs |-> <<>>, bform |-> NoForm, bpairs |-> <<>>, bpost_url |-> <<>>,
     did_bounce_clear |-> FALSE,
     form2 |-> NoForm, pairs2 |-> <<>>, post_url2 |-> <<>>,
     vform2 |-> NoForm, remaining2 |-> -1]

VARIABLES
    env,          \* BASE, LISTNAME, ADMINPW as the environment gives them
    dry_run,      \* --dry-run
    srv,          \* the server's state of each letter's Members page
    pc,           \* where main() is
    idx,          \* the index in letters of the letter being processed
    lpc,          \* where process_letter is: the request it is about to make
    frame,        \* the local variables of process_letter
    login_req,    \* the login submission login() has built
    total,        \* main's total
    results,      \* per letter processed: what process_letter ended with
    login_trace,  \* what login() did
    trace,        \* what the current (or last) call of process_letter did
    requested,    \* whether any network request has been issued
    exit_status,  \* <<status>> once the process has ended, <<>> before
    call          \* one of the form functions called on its own: see FormSpec

vars == <<env, dry_run, srv, pc, idx, lpc, frame, login_req, total, results,
          login_trace, trace, requested, exit_status, call>>

Running == <<>>

\* No form function is called on its own during a run of main().
NoCall == [fn |-> "", form |-> NoForm, returned |-> FALSE, result |-> <<>>]

Init ==
    /\ env \in [{"MAILMAN_BASE_URL", "MAILMAN_LIST_NAME", "MAILMAN_ADMIN_PW"} -> EnvValues]
    /\ dry_run \in BOOLEAN
    /\ \E site \in Sites :
          srv = [l \in LetterNames |->
                    LET t == IF l = "a" THEN site.a ELSE site.b
                    IN  [tpl |-> t, disabled |-> InitiallyDisabled(t), tok |-> 0]]
    /\ pc = "require_env"
    /\ idx = 1
    /\ lpc = "fetch"
    /\ frame = NoFrame
    /\ login_req = <<>>
    /\ total = 0
    /\ results = <<>>
    /\ login_trace = <<>>
    /\ trace = <<>>
    /\ requested = FALSE
    /\ exit_status = Running
    /\ call = NoCall

\* ---- trace events

EvGet(page, url) == [ev |-> "GET", page |-> page, url |-> url]
EvPost(page, url, enc, body) ==
    [ev |-> "POST", page |-> page, url |-> url, enc |-> enc, body |-> body]
EvRaise(kind) == [ev |-> "raise", kind |-> kind]
EvReturn(value) == [ev |-> "return", value |-> value]
EvPreview(url, body) == [ev |-> "preview", url |-> url, body |-> body]
EvEscalate(addrs) == [ev |-> "clear_bounces_for_users", args |-> addrs]
EvEscalated(value) == [ev |-> "clear_bounces_for_users returned", value |-> value]
EvWarning == [ev |-> "warning"]

\* ---- main()

\* Mutant: only an unset value counts as missing; "" passes.
MissingUnsetOnly(e) == {k \in DOMAIN e : e[k] = "unset"}

\* missing = [k for k, v in [...] if not v]
Missing(e) == {k \in DOMAIN e : e[k] # "set"}

\* require_env(): any value missing or empty: sys.exit(2)
require_env ==
    /\ pc = "require_env"
    /\ IF Missing(env) # {}
       THEN pc' = "exit" /\ exit_status' = <<2>>
       ELSE pc' = "login_get" /\ UNCHANGED exit_status
    /\ UNCHANGED <<call, env, dry_run, srv, idx, lpc, frame, login_req, total, results,
                   login_trace, trace, requested>>

\* login(): sess.get(members_url); r.raise_for_status(); then the form, if
\* it is the admin password form. An exception here is caught nowhere.
login_get ==
    /\ pc = "login_get"
    /\ requested' = TRUE
    /\ \/ \E f \in Failures :
            /\ pc' = "crash"
            /\ exit_status' = <<1>>
            /\ login_trace' = login_trace \o <<EvGet("login", members_url), EvRaise(f)>>
            /\ UNCHANGED login_req
       \/ \E page \in LoginPages :
            /\ UNCHANGED exit_status
            /\ IF ~(page.form.present /\ page.pw_field)
               THEN /\ pc' = "letters"
                    /\ login_trace' = Append(login_trace, EvGet("login", members_url))
                    /\ UNCHANGED login_req
               ELSE /\ pc' = "login_post"
                    /\ login_trace' = Append(login_trace, EvGet("login", members_url))
                    /\ login_req' =
                         [url |-> absolutize_action(page.form.action, members_url),
                          method |-> IF page.form.method = "" THEN "post"
                                     ELSE page.form.method,
                          data |-> LoginData(page.form)]
    /\ UNCHANGED <<call, env, dry_run, srv, idx, lpc, frame, total, results, trace>>

\* sess.post(post_url, data=data) or sess.get(post_url, params=data);
\* resp.raise_for_status()
login_post ==
    /\ pc = "login_post"
    /\ LET req == IF login_req.method = "post"
                  THEN EvPost("login", login_req.url, "urlencoded", login_req.data)
                  ELSE [ev |-> "GET", page |-> "login", url |-> login_req.url,
                        params |-> login_req.data]
       IN  \/ \E f \in Failures :
                /\ pc' = "crash"
                /\ exit_status' = <<1>>
                /\ login_trace' = login_trace \o <<req, EvRaise(f)>>
           \/ /\ pc' = "letters"
              /\ login_trace' = Append(login_trace, req)
              /\ UNCHANGED exit_status
    /\ UNCHANGED <<call, env, dry_run, srv, idx, lpc, frame, login_req, total, results,
                   trace, requested>>

\* ---- process_letter(letter, dry_run)

letter == letters[idx]

\* The URL of a response (r.url): this page shape is served through a
\* redirect, the others under the URL requested.
ResponseUrl(s, url) == IF s.tpl = "UB" THEN <<"redirected", url>> ELSE url

\* process_letter(L, dry_run=args.dry_run)
\* Mutant: the call leaves the flag at its default, False.
process_letter_dry_run_default == FALSE

process_letter_dry_run == dry_run

\* Mutant: the preview leaves out the submit control.
DryRunRequestNoSubmit(form, r_url, blocked_names) ==
    [pairs |-> WithoutNames(collect_payload_pairs(form), Range(blocked_names)),
     url |-> absolutize_action(form.action, r_url)]

\* What the dry run builds (pairs_preview, post_url_preview).
DryRunRequest(form, r_url, blocked_names) ==
    [pairs |-> Append(WithoutNames(collect_payload_pairs(form), Range(blocked_names)),
                      pick_members_submit(form)),
     url |-> absolutize_action(form.action, r_url)]

\* What the live run builds for its first submission (pairs, post_url).
LiveRequest(form, r_url, blocked_names) ==
    [pairs |-> Append(WithoutNames(collect_payload_pairs(form), Range(blocked_names)),
                      pick_members_submit(form)),
     url |-> absolutize_action(form.action, r_url)]

\* Mutant: the retry leaves out the names collected at the first fetch.
RetryRequestFirstNames(form2, r2_url) ==
    [pairs |-> Append(WithoutNames(collect_payload_pairs(form2),
                                   Range(frame.blocked_names)),
                      pick_members_submit(form2)),
     url |-> absolutize_action(form2.action, r2_url)]

\* What the retry builds from the page fetched again (pairs2, post_url2).
RetryRequest(form2, r2_url) ==
    LET target2 == BounceTargets(find_blocked_rows_with_reasons(form2))
    IN  [pairs |-> Append(WithoutNames(collect_payload_pairs(form2),
                                       Range(Column(target2, 1))),
                          pick_members_submit(form2)),
         url |-> absolutize_action(form2.action, r2_url)]

\* Mutant: the verification counts nothing as remaining.
RemainingNothing(vform, before) == 0

\* Mutant: a verification page without a form counts as no target left.
RemainingZeroWithoutForm(vform, before) ==
    IF vform.present
    THEN Len(BounceTargets(find_blocked_rows_with_reasons(vform)))
    ELSE 0

\* sum(1 for (_, _, r) in rows if r == 'B'), or before when the page has no form
Remaining(vform, before) ==
    IF vform.present
    THEN Len(BounceTargets(find_blocked_rows_with_reasons(vform)))
    ELSE before

\* Mutant: every "user" field with a value is kept, target or not.
RECURSIVE BouncePairsAllUsers(_, _)
BouncePairsAllUsers(es, target_addrs) ==
    IF es = <<>> THEN <<>>
    ELSE LET inp == Head(es)
             val == GetValue(inp)
             rest == BouncePairsAllUsers(Tail(es), target_addrs)
         IN  IF inp.tag # "input" \/ inp.name = <<>> THEN rest
             ELSE IF inp.type \in {"submit", "image", "button", "file"} THEN rest
             ELSE IF inp.name = sUser /\ val = <<>> THEN rest
             ELSE << <<inp.name, val>> >> \o rest

\* The pairs clear_bounces_for_users builds before the submit control.
RECURSIVE BouncePairs(_, _)
BouncePairs(es, target_addrs) ==
    IF es = <<>> THEN <<>>
    ELSE LET inp == Head(es)
             val == GetValue(inp)
             rest == BouncePairs(Tail(es), target_addrs)
         IN  IF inp.tag # "input" \/ inp.name = <<>> THEN rest
             ELSE IF inp.type \in {"submit", "image", "button", "file"} THEN rest
             ELSE IF inp.name = sUser
                  THEN IF val # <<>> /\ val \in Range(target_addrs)
                       THEN << <<inp.name, val>> >> \o rest
                       ELSE rest
             ELSE << <<inp.name, val>> >> \o rest

\* The Members page as the server answers it: the form of its state, or a
\* page without any form.
MembersAnswers(s) == {MembersForm(s), NoForm}

\* The members whose delivery bounce processing disables while the server
\* handles a submission.
Arrivals(s) == IF s.tpl = "late" /\ s.tok = 0 THEN {2} ELSE {}

\* The server handling a Members submission: it enables any of the members
\* whose checkbox the payload leaves out (none: the submission did not take).
MembersSubmitted(s, pairs, enabled) ==
    [s EXCEPT !.disabled = (s.disabled \ enabled) \cup Arrivals(s),
              !.tok = (s.tok + 1) % 2]

\* Mutant: main keeps the last count instead of adding it (total = count).
ReturnsLastCount(count, tr) ==
    /\ results' = Append(results, [letter |-> letter, outcome |-> "returned",
                                   count |-> count])
    /\ total' = count
    /\ trace' = Append(tr, EvReturn(count))
    /\ idx' = idx + 1
    /\ lpc' = "fetch"
    /\ pc' = IF idx = NumLetters THEN "done" ELSE "letters"
    /\ exit_status' = IF idx = NumLetters THEN <<0>> ELSE exit_status

\* process_letter returns count to main's loop: total += count
Returns(count, tr) ==
    /\ results' = Append(results, [letter |-> letter, outcome |-> "returned",
                                   count |-> count])
    /\ total' = total + count
    /\ trace' = Append(tr, EvReturn(count))
    /\ idx' = idx + 1
    /\ lpc' = "fetch"
    /\ pc' = IF idx = NumLetters THEN "done" ELSE "letters"
    /\ exit_status' = IF idx = NumLetters THEN <<0>> ELSE exit_status

\* Mutant: no except clause: the exception ends the run.
RaisesUncaught(kind, tr) ==
    /\ results' = results
    /\ total' = total
    /\ trace' = Append(tr, EvRaise(kind))
    /\ idx' = idx
    /\ lpc' = lpc
    /\ pc' = "crash"
    /\ exit_status' = <<1>>

\* Mutant: only requests.HTTPError is caught.
RaisesOnlyHTTPErrorCaught(kind, tr) ==
    IF kind # "HTTPError" THEN RaisesUncaught(kind, tr)
    ELSE /\ results' = Append(results, [letter |-> letter, outcome |-> kind, count |-> 0])
         /\ total' = total
         /\ trace' = Append(tr, EvRaise(kind))
         /\ idx' = idx + 1
         /\ lpc' = "fetch"
         /\ pc' = IF idx = NumLetters THEN "done" ELSE "letters"
         /\ exit_status' = IF idx = NumLetters THEN <<0>> ELSE exit_status

\* A request of process_letter raises: main's loop catches it (except
\* requests.HTTPError / except Exception), logs, and goes on.
Raises(kind, tr) ==
    /\ results' = Append(results, [letter |-> letter, outcome |-> kind, count |-> 0])
    /\ total' = total
    /\ trace' = Append(tr, EvRaise(kind))
    /\ idx' = idx + 1
    /\ lpc' = "fetch"
    /\ pc' = IF idx = NumLetters THEN "done" ELSE "letters"
    /\ exit_status' = IF idx = NumLetters THEN <<0>> ELSE exit_status

\* r = sess.get(page_url); parse; extract; no target: return 0; dry run:
\* build the preview and return before; else build the first submission.
fetch_members ==
    /\ pc = "letters" /\ lpc = "fetch"
    /\ LET tr == <<EvGet("members", PageUrl(letter))>>
       IN  \/ \E f \in Failures :
                /\ Raises(f, tr)
                /\ frame' = [NoFrame EXCEPT !.letter = letter]
           \/ \E form \in MembersAnswers(srv[letter]) :
                LET r_url == ResponseUrl(srv[letter], PageUrl(letter))
                    blocked_rows == IF form.present
                                    THEN find_blocked_rows_with_reasons(form)
                                    ELSE <<>>
                    target == BounceTargets(blocked_rows)
                    blocked_names == Column(target, 1)
                    blocked_addrs == Column(target, 2)
                    before == Len(blocked_names)
                    got == [NoFrame EXCEPT !.letter = letter, !.form = form,
                                           !.r_url = r_url,
                                           !.blocked_rows = blocked_rows,
                                           !.blocked_names = blocked_names,
                                           !.blocked_addrs = blocked_addrs,
                                           !.before = before]
                IN  IF ~form.present
                    THEN /\ Returns(0, tr)
                         /\ frame' = [NoFrame EXCEPT !.letter = letter, !.r_url = r_url]
                    ELSE IF before = 0
                    THEN Returns(0, tr) /\ frame' = got
                    ELSE IF process_letter_dry_run
                    THEN LET preview == DryRunRequest(form, r_url, blocked_names)
                         IN  /\ Returns(before,
                                        Append(tr, EvPreview(preview.url, preview.pairs)))
                             /\ frame' = got
                    ELSE LET req == LiveRequest(form, r_url, blocked_names)
                         IN  /\ frame' = [got EXCEPT !.pairs = req.pairs,
                                                     !.post_url = req.url]
                             /\ trace' = tr
                             /\ lpc' = "post"
                             /\ UNCHANGED <<pc, idx, total, results, exit_status>>
    /\ requested' = TRUE
    /\ UNCHANGED <<call, env, dry_run, srv, login_req, login_trace>>

\* pr = sess.post(post_url, data=pairs, headers=headers); pr.raise_for_status()
post_members ==
    /\ pc = "letters" /\ lpc = "post"
    /\ LET tr == Append(trace, EvPost("members", frame.post_url, "urlencoded", frame.pairs))
       IN  \/ \E f \in Failures : Raises(f, tr) /\ UNCHANGED srv
           \/ \E enabled \in SUBSET Unchecked(srv[letter], frame.pairs) :
                /\ srv' = [srv EXCEPT ![letter] = MembersSubmitted(@, frame.pairs, enabled)]
                /\ trace' = tr
                /\ lpc' = "verify"
                /\ UNCHANGED <<pc, idx, total, results, exit_status>>
    /\ UNCHANGED <<call, env, dry_run, frame, login_req, login_trace, requested>>

\* Mutant: what remains is reported, not what was cleared.
UnblockedIsRemaining(before, remaining) == remaining

\* unblocked = before - remaining
Unblocked(before, remaining) == before - remaining

\* Mutant: the escalator gets the address of every blocked row.
EscalationArgsAllRows(f) == Column(f.blocked_rows, 2)

\* did_bounce_clear = clear_bounces_for_users(blocked_addrs)
EscalationArgs(f) == f.blocked_addrs

\* vr = sess.get(page_url); count what remains; fewer: return the delta;
\* else call clear_bounces_for_users(blocked_addrs)
verify_members ==
    /\ pc = "letters" /\ lpc = "verify"
    /\ LET tr == Append(trace, EvGet("members", PageUrl(letter)))
       IN  \/ \E f \in Failures : Raises(f, tr) /\ UNCHANGED frame
           \/ \E vform \in MembersAnswers(srv[letter]) :
                LET remaining == Remaining(vform, frame.before)
                    seen == [frame EXCEPT !.vform = vform, !.remaining = remaining]
                IN  IF remaining < frame.before
                    THEN /\ Returns(Unblocked(frame.before, remaining), tr)
                         /\ frame' = seen
                    ELSE /\ frame' = [seen EXCEPT !.target_addrs = EscalationArgs(frame)]
                         /\ trace' = Append(tr, EvEscalate(EscalationArgs(frame)))
                         /\ lpc' = "bounce_get"
                         /\ UNCHANGED <<pc, idx, total, results, exit_status>>
    /\ UNCHANGED <<call, env, dry_run, srv, login_req, login_trace, requested>>

\* Mutant: nothing to clear is raised as an error.
NoBounceChangeRaises(tr) == Raises("Exception", Append(tr, EvEscalated(FALSE)))

\* Mutant: the retry is made whatever clear_bounces_for_users returned.
NoBounceChangeRetries(tr) ==
    /\ trace' = Append(tr, EvEscalated(FALSE))
    /\ lpc' = "refetch"
    /\ UNCHANGED <<pc, idx, total, results, exit_status>>

\* clear_bounces_for_users returns False: did_bounce_clear is False, so
\* process_letter logs the warning and returns 0
NoBounceChange(tr) == Returns(0, tr \o <<EvEscalated(FALSE), EvWarning>>)

\* clear_bounces_for_users: r = sess.get(bounce_url); no form, or no "user"
\* field of a target: return False, and process_letter warns and returns 0
bounce_get ==
    /\ pc = "letters" /\ lpc = "bounce_get"
    /\ LET tr == Append(trace, EvGet("bounce", bounce_url))
       IN  \/ \E f \in Failures : Raises(f, tr) /\ UNCHANGED frame
           \/ \E form \in BouncePages :
                LET pairs == BouncePairs(form.elems, frame.target_addrs)
                IN  IF \/ ~form.present
                       \/ ~\E i \in 1..Len(pairs) : pairs[i][1] = sUser
                    THEN /\ NoBounceChange(tr)
                         /\ frame' = [frame EXCEPT !.bform = form]
                    ELSE /\ frame' = [frame EXCEPT
                                !.bform = form,
                                !.bpairs = Append(pairs, pick_bounce_submit(form)),
                                !.bpost_url = absolutize_action(form.action, bounce_url)]
                         /\ trace' = tr
                         /\ lpc' = "bounce_post"
                         /\ UNCHANGED <<pc, idx, total, results, exit_status>>
    /\ UNCHANGED <<call, env, dry_run, srv, login_req, login_trace, requested>>

\* pr = sess.post(post_url, files=files, headers=headers); pr.raise_for_status()
bounce_post ==
    /\ pc = "letters" /\ lpc = "bounce_post"
    /\ LET tr == Append(trace, EvPost("bounce", frame.bpost_url, "multipart", frame.bpairs))
       IN  \/ \E f \in Failures : Raises(f, tr)
           \/ /\ trace' = tr
              /\ lpc' = "bounce_reload"
              /\ UNCHANGED <<pc, idx, total, results, exit_status>>
    /\ UNCHANGED <<call, env, dry_run, srv, frame, login_req, login_trace, requested>>

\* vr = sess.get(bounce_url); vr.raise_for_status(); return True
bounce_reload ==
    /\ pc = "letters" /\ lpc = "bounce_reload"
    /\ LET tr == Append(trace, EvGet("bounce", bounce_url))
       IN  \/ \E f \in Failures : Raises(f, tr) /\ UNCHANGED frame
           \/ /\ frame' = [frame EXCEPT !.did_bounce_clear = TRUE]
              /\ trace' = Append(tr, EvEscalated(TRUE))
              /\ lpc' = "refetch"
              /\ UNCHANGED <<pc, idx, total, results, exit_status>>
    /\ UNCHANGED <<call, env, dry_run, srv, login_req, login_trace, requested>>

\* Mutant: the retry is built whether or not the page has a form.
RetryAlways(form2) == TRUE

\* if form2:
RetryPossible(form2) == form2.present

\* r2 = sess.get(page_url); no form: warn and return 0; else rebuild the
\* submission from form2
refetch_members ==
    /\ pc = "letters" /\ lpc = "refetch"
    /\ LET tr == Append(trace, EvGet("members", PageUrl(letter)))
       IN  \/ \E f \in Failures : Raises(f, tr) /\ UNCHANGED frame
           \/ \E form2 \in MembersAnswers(srv[letter]) :
                IF ~RetryPossible(form2)
                THEN Returns(0, Append(tr, EvWarning)) /\ UNCHANGED frame
                ELSE LET req == RetryRequest(form2,
                                    ResponseUrl(srv[letter], PageUrl(letter)))
                     IN  /\ frame' = [frame EXCEPT !.form2 = form2,
                                                   !.pairs2 = req.pairs,
                                                   !.post_url2 = req.url]
                         /\ trace' = tr
                         /\ lpc' = "repost"
                         /\ UNCHANGED <<pc, idx, total, results, exit_status>>
    /\ UNCHANGED <<call, env, dry_run, srv, login_req, login_trace, requested>>

\* pr2 = sess.post(post_url2, data=pairs2, headers=headers); pr2.raise_for_status()
repost_members ==
    /\ pc = "letters" /\ lpc = "repost"
    /\ LET tr == Append(trace, EvPost("members", frame.post_url2, "urlencoded", frame.pairs2))
       IN  \/ \E f \in Failures : Raises(f, tr) /\ UNCHANGED srv
           \/ \E enabled \in SUBSET Unchecked(srv[letter], frame.pairs2) :
                /\ srv' = [srv EXCEPT ![letter] = MembersSubmitted(@, frame.pairs2, enabled)]
                /\ trace' = tr
                /\ lpc' = "reverify"
                /\ UNCHANGED <<pc, idx, total, results, exit_status>>
    /\ UNCHANGED <<call, env, dry_run, frame, login_req, login_trace, requested>>

\* vr2 = sess.get(page_url); fewer than before: return the delta; else warn
\* and return 0
reverify_members ==
    /\ pc = "letters" /\ lpc = "reverify"
    /\ LET tr == Append(trace, EvGet("members", PageUrl(letter)))
       IN  \/ \E f \in Failures : Raises(f, tr) /\ UNCHANGED frame
           \/ \E vform2 \in MembersAnswers(srv[letter]) :
                LET remaining2 == Remaining(vform2, frame.before)
                IN  /\ frame' = [frame EXCEPT !.vform2 = vform2,
                                              !.remaining2 = remaining2]
                    /\ IF remaining2 < frame.before
                       THEN Returns(Unblocked(frame.before, remaining2), tr)
                       ELSE Returns(0, Append(tr, EvWarning))
    /\ UNCHANGED <<call, env, dry_run, srv, login_req, login_trace, requested>>

Next ==
    \/ require_env
    \/ login_get
    \/ login_post
    \/ fetch_members
    \/ post_members
    \/ verify_members
    \/ bounce_get
    \/ bounce_post
    \/ bounce_reload
    \/ refetch_members
    \/ repost_members
    \/ reverify_members

Spec == Init /\ [][Next]_vars

\* ------------------------------------------- the form functions on their own

(* collect_payload_pairs, find_blocked_rows_with_reasons and               *)
(* pick_members_submit are functions of the parsed form alone. FormSpec    *)
(* calls each of them once on every form of at most MaxFields elements     *)
(* taken from the kinds of element the function tells apart.               *)
MaxFields == 3

nF == <<"f">>
nG == <<"g">>
nC == <<"c">>
sOne == <<"o", "n", "e">>
sTwo == <<"t", "w", "o">>

\* The elements collect_payload_pairs is tried on. Checkboxes are named c,
\* the other elements f or g (two elements may have the same name).
PayloadFields ==
    { Hidden(nF, <<"1">>, 0),
      [Element EXCEPT !.name = nG],
      SubmitButton(nF, <<"G", "o">>),
      Checkbox(nC, <<"x">>, TRUE, TRUE, 0, <<>>, <<>>),
      Checkbox(nC, <<>>, FALSE, TRUE, 0, <<>>, <<>>),
      Checkbox(nC, <<>>, TRUE, TRUE, 0, <<>>, <<>>),
      Checkbox(nC, <<"x">>, TRUE, FALSE, 0, <<>>, <<>>),
      Checkbox(<<>>, <<"x">>, TRUE, TRUE, 0, <<>>, <<>>),
      Textarea(nF, <<"h", "i">>),
      Select(nG, FALSE, <<Option(<<"1">>, TRUE, sOne, FALSE),
                          Option(<<"2">>, TRUE, sTwo, FALSE)>>),
      Select(nG, FALSE, <<Option(<<>>, FALSE, sOne, FALSE),
                          Option(<<"2">>, TRUE, sTwo, TRUE)>>),
      Select(nF, FALSE, <<Option(<<>>, FALSE, sOne, FALSE)>>),
      Select(nF, FALSE, <<>>),
      Select(nG, TRUE, <<Option(<<"1">>, TRUE, sOne, TRUE),
                         Option(<<"2">>, TRUE, sTwo, TRUE)>>),
      Select(nG, TRUE, <<Option(<<"1">>, TRUE, sOne, FALSE)>>) }

\* The elements find_blocked_rows_with_reasons is tried on: "user" fields
\* in a row, outside any row, with an empty value; *_nomail checkboxes
\* checked or not, with the reason after them, in the cell, or nowhere.
MemberFields ==
    { Hidden(sUser, aAlice, 1),
      Hidden(sUser, <<>>, 1),
      Hidden(sUser, aBob, 0),
      Checkbox(aAlice \o sNomailSuffix, sOff, TRUE, TRUE, 1, <<sTokB>>, sTokB),
      Checkbox(aBob \o sNomailSuffix, sOff, TRUE, TRUE, 2, <<>>, sTokA),
      Checkbox(aCarol \o sNomailSuffix, sOff, TRUE, TRUE, 0, <<<<"[", "b", "]">>>>, <<>>),
      Checkbox(aBob \o sNomailSuffix, sOff, TRUE, TRUE, 1, <<>>, <<>>),
      Checkbox(aAlice \o sNomailSuffix, sOff, TRUE, FALSE, 1, <<>>, <<>>),
      Checkbox(nC, sOff, TRUE, TRUE, 1, <<sTokB>>, sTokB) }

\* The elements pick_members_submit is tried on.
SubmitFields ==
    { SubmitButton(sFindBtn, sSearchVal),
      SubmitButton(sSetBtn, sSetVal),
      SubmitButton(<<"g", "o">>, <<"A", "P", "P", "L", "Y">>),
      SubmitButton(<<"o", "k">>, <<"C", "h", "a", "n", "g", "e">>),
      SubmitButton(<<"x">>, <<>>),
      SubmitButton(<<>>, sSetVal),
      SubmitButton(sSetmember \o <<"_">> \o sSearch, <<"G", "o">>),
      Hidden(sCsrf, Token(0), 0) }

\* The forms of at most MaxFields elements taken from a set.
FormsOf(fields) ==
    {Form(sMembersAction, "post", es) :
        es \in UNION {[1..k -> fields] : k \in 0..MaxFields}}

Called(fn, form) == [fn |-> fn, form |-> form, returned |-> FALSE, result |-> <<>>]

FormInit ==
    /\ env = [k \in {"MAILMAN_BASE_URL", "MAILMAN_LIST_NAME", "MAILMAN_ADMIN_PW"} |-> "set"]
    /\ dry_run = FALSE
    /\ srv = [l \in LetterNames |-> [tpl |-> "none", disabled |-> {}, tok |-> 0]]
    /\ pc = "none"
    /\ idx = 1
    /\ lpc = "fetch"
    /\ frame = NoFrame
    /\ login_req = <<>>
    /\ total = 0
    /\ results = <<>>
    /\ login_trace = <<>>
    /\ trace = <<>>
    /\ requested = FALSE
    /\ exit_status = Running
    /\ call \in {Called("collect_payload_pairs", f) : f \in FormsOf(PayloadFields)}
               \cup {Called("find_blocked_rows_with_reasons", f) : f \in FormsOf(MemberFields)}
               \cup {Called("pick_members_submit", f) : f \in FormsOf(SubmitFields)}

Return(value) == call' = [call EXCEPT !.returned = TRUE, !.result = value]

call_collect_payload_pairs ==
    /\ call.fn = "collect_payload_pairs" /\ ~call.returned
    /\ Return(collect_payload_pairs(call.form))
    /\ UNCHANGED <<env, dry_run, srv, pc, idx, lpc, frame, login_req, total, results,
                   login_trace, trace, requested, exit_status>>

call_find_blocked_rows_with_reasons ==
    /\ call.fn = "find_blocked_rows_with_reasons" /\ ~call.returned
    /\ Return(find_blocked_rows_with_reasons(call.form))
    /\ UNCHANGED <<env, dry_run, srv, pc, idx, lpc, frame, login_req, total, results,
                   login_trace, trace, requested, exit_status>>

call_pick_members_submit ==
    /\ call.fn = "pick_members_submit" /\ ~call.returned
    /\ Return(pick_members_submit(call.form))
    /\ UNCHANGED <<env, dry_run, srv, pc, idx, lpc, frame, login_req, total, results,
                   login_trace, trace, requested, exit_status>>

FormNext ==
    \/ call_collect_payload_pairs
    \/ call_find_blocked_rows_with_reasons
    \/ call_pick_members_submit

FormSpec == FormInit /\ [][FormNext]_vars

\* ------------------------------------------------------------ properties

Last(seq) == seq[Len(seq)]

\* The positions of the trace with the Members submissions, the Bounce
\* submissions, and the calls of the escalator.
MembersPosts == {i \in 1..Len(trace) : trace[i].ev = "POST" /\ trace[i].page = "members"}

BouncePosts == {i \in 1..Len(trace) : trace[i].ev = "POST" /\ trace[i].page = "bounce"}

Escalations == {i \in 1..Len(trace) : trace[i].ev = "clear_bounces_for_users"}

EscalatorReported(value) ==
    \E i \in 1..Len(trace) :
        trace[i].ev = "clear_bounces_for_users returned" /\ trace[i].value = value

LetterReturned == trace # <<>> /\ Last(trace).ev = "return"

LetterRaised == trace # <<>> /\ Last(trace).ev = "raise"

\* The rows of a page whose reason is B, and the others, as the extractor
\* returns them: (checkbox name, address, reason).
ReasonBRows(form) ==
    SelectSeq(find_blocked_rows_with_reasons(form), LAMBDA row : row[3] = "B")

OtherRows(form) ==
    SelectSeq(find_blocked_rows_with_reasons(form), LAMBDA row : row[3] # "B")

\* The first verification fetch got a page with a form, and the retry's.
Verified == frame.remaining # -1 /\ frame.vform.present

Reverified == frame.remaining2 # -1 /\ frame.vform2.present

\* process_letter has reported zero and main goes on: the next letter is
\* about to be fetched, or the run is done with status 0.
ReportedZeroAndGoesOn ==
    /\ Last(trace) = EvReturn(0)
    /\ Last(results) = [letter |-> letters[Len(results)], outcome |-> "returned",
                        count |-> 0]
    /\ idx = Len(results) + 1
    /\ IF Len(results) < NumLetters
       THEN pc = "letters" /\ lpc = "fetch" /\ exit_status = Running
       ELSE pc = "done" /\ exit_status = <<0>>

\* C1: live run: when the page fetched after the first submission still has
\* as many reason-B rows as the first page, clear_bounces_for_users has been
\* called once, right after that fetch, with exactly the addresses of the
\* reason-B rows of the first page, in order, and only one Members
\* submission precedes the call.
C1_EscalatesWithFirstTargets ==
    (Verified /\ Len(ReasonBRows(frame.vform)) = Len(ReasonBRows(frame.form)))
    => /\ Cardinality(Escalations) = 1
       /\ \A i \in Escalations :
            /\ trace[i].args = Column(ReasonBRows(frame.form), 2)
            /\ trace[i - 1] = EvGet("members", PageUrl(frame.letter))
            /\ Cardinality({j \in MembersPosts : j < i}) = 1
            /\ \A j \in BouncePosts : j > i

C1_Witness ==
    /\ Verified
    /\ Len(ReasonBRows(frame.vform)) = 2
    /\ Len(ReasonBRows(frame.form)) = 2
    /\ lpc = "bounce_get"
    /\ Last(trace) = EvEscalate(<<aAlice, aBob>>)

\* C2 as stated: a letter that returned after the escalator reported a
\* change has made exactly one retry (two Members submissions), the retry
\* followed by a verification fetch, whatever the page fetched again held.
C2_RetryWhateverThePage ==
    (LetterReturned /\ EscalatorReported(TRUE))
    => /\ Cardinality(MembersPosts) = 2
       /\ \A i \in MembersPosts :
            (\E j \in MembersPosts : j < i)
            => trace[i + 1] = EvGet("members", PageUrl(frame.letter))

\* C2 amended: there is never more than one retry, and none before the
\* escalator reported a change; a letter that returned after the escalator
\* reported a change has made exactly one retry, followed by a verification
\* fetch, when the page fetched again had a form, and no retry (reporting
\* zero) when it had none.
C2_OneRetryIfFormPresent ==
    /\ Cardinality(MembersPosts) <= 2
    /\ Cardinality(MembersPosts) = 2 => EscalatorReported(TRUE)
    /\ (LetterReturned /\ EscalatorReported(TRUE))
       => IF frame.form2.present
          THEN /\ Cardinality(MembersPosts) = 2
               /\ \A i \in MembersPosts :
                    (\E j \in MembersPosts : j < i)
                    => /\ trace[i + 1] = EvGet("members", PageUrl(frame.letter))
                       /\ trace[i - 1] = EvGet("members", PageUrl(frame.letter))
          ELSE /\ Cardinality(MembersPosts) = 1
               /\ Last(trace) = EvReturn(0)

C2_Witness ==
    /\ LetterReturned
    /\ EscalatorReported(TRUE)
    /\ frame.form2.present
    /\ Cardinality(MembersPosts) = 2

\* C3: live run: when the page fetched after the first submission has
\* fewer reason-B rows than the first page, process_letter has returned the
\* difference, and has neither called the escalator nor made any request
\* after that fetch: one Members submission, no Bounce request.
C3_SuccessReportsDelta ==
    (Verified /\ Len(ReasonBRows(frame.vform)) < Len(ReasonBRows(frame.form)))
    => /\ Last(trace) =
            EvReturn(Len(ReasonBRows(frame.form)) - Len(ReasonBRows(frame.vform)))
       /\ Last(results).count =
            Len(ReasonBRows(frame.form)) - Len(ReasonBRows(frame.vform))
       /\ Last(results).outcome = "returned"
       /\ Escalations = {}
       /\ Cardinality(MembersPosts) = 1
       /\ \A i \in 1..Len(trace) : trace[i].ev \in {"GET", "POST"} => trace[i].page = "members"
       /\ Len(trace) = 4

C3_Witness ==
    /\ Verified
    /\ Len(ReasonBRows(frame.form)) = 2
    /\ Len(ReasonBRows(frame.vform)) = 1
    /\ Last(trace) = EvReturn(1)

\* C4: when the escalator reports no change, no retry submission is made
\* and process_letter reports zero; when the page fetched after the retry
\* has no fewer reason-B rows than the first page, it reports zero; in both
\* cases the run goes on with the next letter (or ends normally after the
\* last).
C4_NoChangeReportsZero ==
    /\ EscalatorReported(FALSE)
       => Cardinality(MembersPosts) = 1 /\ ReportedZeroAndGoesOn
    /\ (Reverified /\ Len(ReasonBRows(frame.vform2)) >= Len(ReasonBRows(frame.form)))
       => ReportedZeroAndGoesOn

C4_Witness ==
    /\ Reverified
    /\ Len(ReasonBRows(frame.vform2)) >= Len(ReasonBRows(frame.form))
    /\ EscalatorReported(TRUE)
    /\ pc = "letters"
    /\ idx = 2

\* C5: dry run: process_letter makes one request, the fetch of the letter's
\* page: no submission to the Members form or the Bounce page, no call of
\* the escalator; the server's flags stay as they were; and it returns the
\* number of reason-B rows of the page fetched (zero without a form).
C5_DryRunSubmitsNothing ==
    dry_run
    => /\ \A i \in 1..Len(trace) :
            /\ trace[i].ev \notin {"POST", "clear_bounces_for_users"}
            /\ trace[i].ev = "GET"
               => i = 1 /\ trace[i] = EvGet("members", PageUrl(frame.letter))
       /\ \A l \in LetterNames :
            /\ srv[l].disabled = InitiallyDisabled(srv[l].tpl)
            /\ srv[l].tok = 0
       /\ trace # <<>> => LetterReturned \/ LetterRaised
       /\ LetterReturned
          => LET found == IF frame.form.present THEN Len(ReasonBRows(frame.form)) ELSE 0
             IN  /\ Last(trace) = EvReturn(found)
                 /\ Last(results).count = found

C5_Witness ==
    /\ dry_run
    /\ LetterReturned
    /\ Last(trace).value = 2
    /\ srv[frame.letter].disabled = {1, 2}
    /\ Len(trace) = 3

\* C6: the payload and the action URL the dry run builds for a page are
\* those the live run builds for its first submission from the same page
\* (its form, the URL of its response, its reason-B checkbox names): the
\* same pairs in the same order, the submit control last.
C6_PreviewIsLiveRequest ==
    \A i \in 1..Len(trace) :
        trace[i].ev = "preview"
        => LET live == LiveRequest(frame.form, frame.r_url,
                                   Column(ReasonBRows(frame.form), 1))
           IN  /\ trace[i].body = live.pairs
               /\ trace[i].url = live.url

C6_Witness ==
    /\ dry_run
    /\ \E i \in 1..Len(trace) : trace[i].ev = "preview" /\ Len(trace[i].body) = 7
    /\ OtherRows(frame.form) # <<>>
    /\ frame.r_url # PageUrl(frame.letter)

\* The form a Members submission of the trace was built from: the first
\* from the first page, the retry from the page fetched again.
FormOfPost(i) == IF \E j \in MembersPosts : j < i THEN frame.form2 ELSE frame.form

HasPair(body, name) == \E k \in 1..Len(body) : body[k][1] = name

\* C7 as stated: a blocked row whose reason is not B keeps its pair in every
\* Members payload submitted, and its address is never passed to the
\* escalator.
C7_OtherReasonsUntouched ==
    /\ \A i \in MembersPosts :
         \A k \in 1..Len(OtherRows(FormOfPost(i))) :
            HasPair(trace[i].body, OtherRows(FormOfPost(i))[k][1])
    /\ \A i \in Escalations :
         \A k \in 1..Len(OtherRows(frame.form)) :
            OtherRows(frame.form)[k][2] \notin Range(trace[i].args)

\* C7 amended: the target set holds the reason-B rows only; a blocked row
\* whose reason is not B keeps its pair in every Members payload submitted
\* unless a reason-B row of the same page has the same checkbox name, and
\* its address is passed to the escalator only when the extractor gave a
\* reason-B row of the first page that same address.
C7_OtherReasonsOnlyShared ==
    /\ frame.form.present
       => /\ frame.blocked_names = Column(ReasonBRows(frame.form), 1)
          /\ frame.blocked_addrs = Column(ReasonBRows(frame.form), 2)
    /\ \A i \in MembersPosts :
         LET form == FormOfPost(i)
         IN  \A k \in 1..Len(OtherRows(form)) :
                \/ HasPair(trace[i].body, OtherRows(form)[k][1])
                \/ \E b \in 1..Len(ReasonBRows(form)) :
                      ReasonBRows(form)[b][1] = OtherRows(form)[k][1]
    /\ \A i \in Escalations :
         \A k \in 1..Len(OtherRows(frame.form)) :
            OtherRows(frame.form)[k][2] \in Range(trace[i].args)
            => \E b \in 1..Len(ReasonBRows(frame.form)) :
                  ReasonBRows(frame.form)[b][2] = OtherRows(frame.form)[k][2]

C7_Witness ==
    /\ Cardinality(MembersPosts) = 2
    /\ Escalations # {}
    /\ OtherRows(frame.form) # <<>>
    /\ OtherRows(frame.form2) # <<>>
    /\ \A i \in MembersPosts : HasPair(trace[i].body, aBob \o sNomailSuffix)
    /\ \A i \in Escalations : trace[i].args = <<aAlice>>

\* C8: a request of process_letter that fails (HTTPError or any other
\* exception) ends that letter only: the letter is recorded with count 0,
\* the next letter of the list is the next to be processed, the letters are
\* processed in order, and the run ends only after the last.
C8_FailureSkipsOneLetter ==
    /\ (results # <<>> \/ trace # <<>>) => pc \in {"letters", "done"}
    /\ pc \in {"letters", "done"} => idx = Len(results) + 1
    /\ \A i \in 1..Len(results) : results[i].letter = letters[i]
    /\ pc = "done" <=> Len(results) = NumLetters
    /\ LetterRaised
       => /\ results # <<>>
          /\ Last(results) = [letter |-> frame.letter, outcome |-> Last(trace).kind,
                              count |-> 0]
          /\ Len(results) < NumLetters => pc = "letters" /\ lpc = "fetch"

C8_Witness ==
    /\ pc = "done"
    /\ results[1].outcome = "Exception"
    /\ results[NumLetters].outcome = "returned"
    /\ results[NumLetters].count > 0

ConfigurationValid == \A k \in DOMAIN env : env[k] = "set"

RECURSIVE SumOfCounts(_)
SumOfCounts(rs) == IF rs = <<>> THEN 0 ELSE Head(rs).count + SumOfCounts(Tail(rs))

\* C9 as stated: with a valid configuration, the run ends only after every
\* letter has been attempted and the total reported, whatever request
\* fails, those of login included.
C9_OnlyConfigurationStops ==
    (ConfigurationValid /\ exit_status # Running)
    => pc = "done" /\ Len(results) = NumLetters

\* C9 amended: with a valid configuration, the run ends before all letters
\* have been attempted only when a request of login fails (that exception is
\* caught nowhere); once login has completed, no failure of any request
\* stops the run before every letter has been attempted and the total, the
\* sum of the letters' counts, is reported.
C9_OnlyLoginOrConfigurationStops ==
    /\ exit_status = Running <=> pc \in {"require_env", "login_get", "login_post", "letters"}
    /\ pc = "exit" => ~ConfigurationValid /\ exit_status = <<2>>
    /\ pc = "crash"
       => /\ ConfigurationValid
          /\ exit_status = <<1>>
          /\ results = <<>> /\ trace = <<>>
          /\ Last(login_trace).ev = "raise"
    /\ pc = "done"
       => /\ ConfigurationValid
          /\ exit_status = <<0>>
          /\ Len(results) = NumLetters
          /\ total = SumOfCounts(results)

C9_Witness ==
    /\ pc = "done"
    /\ \A i \in 1..NumLetters : results[i].outcome # "returned"

\* C10: when one of MAILMAN_BASE_URL, MAILMAN_LIST_NAME, MAILMAN_ADMIN_PW
\* is unset or empty, the only step of the run is the exit with status 2:
\* no request has been issued, by login or for any letter.
C10_MissingConfigurationExitsFirst ==
    (\E k \in DOMAIN env : env[k] \in {"unset", "empty"})
    => /\ ~requested
       /\ login_trace = <<>> /\ trace = <<>>
       /\ pc \in {"require_env", "exit"}
       /\ pc = "exit" => exit_status = <<2>>
       /\ pc = "require_env" => exit_status = Running

C10_Witness ==
    /\ pc = "exit"
    /\ exit_status = <<2>>
    /\ env["MAILMAN_ADMIN_PW"] = "empty"
    /\ env["MAILMAN_BASE_URL"] = "set"
    /\ env["MAILMAN_LIST_NAME"] = "set"

\* A form none of whose submit inputs has a name.
NoNamedSubmit(form) ==
    form.present /\ ~\E j \in 1..Len(form.elems) : IsNamedSubmit(form.elems[j])

\* C11 as stated: when the Members form has no named submit input, the
\* selection of the submit control fails and the letter is skipped: no
\* Members submission is sent for it.
C11_NoSubmitControlSkipsLetter ==
    NoNamedSubmit(frame.form) => MembersPosts = {}

\* C11 amended: when the Members form has no named submit input, nothing
\* fails: the submission built from it ends with the pair ("submit",
\* "Submit"), and in a live run with a target it is the request sent right
\* after the page fetch; the same holds for the retry.
C11_NoSubmitControlFallsBack ==
    /\ (NoNamedSubmit(frame.form) /\ frame.before > 0 /\ ~dry_run)
       => /\ Last(frame.pairs) = <<sSubmitLower, sSubmitCap>>
          /\ Len(trace) >= 2
             => trace[2] = EvPost("members", frame.post_url, "urlencoded", frame.pairs)
    /\ (NoNamedSubmit(frame.form) /\ frame.before > 0 /\ dry_run /\ trace # <<>>)
       => /\ trace[2].ev = "preview"
          /\ Last(trace[2].body) = <<sSubmitLower, sSubmitCap>>
          /\ Last(trace) = EvReturn(frame.before)
    /\ NoNamedSubmit(frame.form2)
       => /\ Last(frame.pairs2) = <<sSubmitLower, sSubmitCap>>
          /\ Cardinality(MembersPosts) = 2
             => \E i \in MembersPosts : trace[i].body = frame.pairs2

C11_Witness ==
    /\ NoNamedSubmit(frame.form)
    /\ Cardinality(MembersPosts) = 1
    /\ \A i \in MembersPosts : Last(trace[i].body) = <<sSubmitLower, sSubmitCap>>
    /\ Last(trace) = EvReturn(1)

\* A call of FormSpec that has returned.
Returned(fn) == call.fn = fn /\ call.returned

\* The pairs a form made of the one element e gives.
PairsOfElement(e) == collect_payload_pairs(Form(sMembersAction, "post", <<e>>))

\* The pairs of the elements of a form, element after element in the order
\* of the document.
RECURSIVE DocumentOrderPairs(_)
DocumentOrderPairs(es) ==
    IF es = <<>> THEN <<>>
    ELSE PairsOfElement(Head(es)) \o DocumentOrderPairs(Tail(es))

\* C12: the payload collect_payload_pairs builds lists the pairs of the
\* named inputs, textareas and selects in the order the elements have in
\* the document, duplicate names kept, inputs, textareas and selects
\* interleaved or not.
C12_PairsInDocumentOrder ==
    Returned("collect_payload_pairs")
    => call.result = DocumentOrderPairs(call.form.elems)

\* The checked checkboxes of a form, in document order, and those of them
\* that have a name.
CheckedBoxes(es) ==
    SelectSeq(es, LAMBDA e : e.tag = "input" /\ e.type = "checkbox" /\ e.checked)

NamedCheckedBoxes(es) == SelectSeq(CheckedBoxes(es), LAMBDA e : e.name # <<>>)

\* The pairs of a payload that come from a checkbox: in the forms of
\* FormSpec the name c is a checkbox's and only a checkbox's.
CheckboxPairs(pairs) == SelectSeq(pairs, LAMBDA p : p[1] = nC)

\* C13 as stated: a form with K checked checkboxes gives exactly K
\* checkbox pairs, with the value "on" for a checkbox without a value
\* attribute.
C13_OnePairPerCheckedBox ==
    Returned("collect_payload_pairs")
    => LET boxes == CheckedBoxes(call.form.elems)
           got == CheckboxPairs(call.result)
       IN  /\ Len(got) = Len(boxes)
           /\ \A k \in 1..Len(boxes) : ~boxes[k].hasValue => got[k][2] = sOn

\* C13 amended: a form with K checked checkboxes that have a name gives
\* exactly K checkbox pairs, in document order (a checked checkbox without
\* a name gives none); the value is "on" for a checkbox without a value
\* attribute or with an empty one, and the value attribute otherwise.
C13_OnePairPerNamedCheckedBox ==
    Returned("collect_payload_pairs")
    => LET boxes == NamedCheckedBoxes(call.form.elems)
           got == CheckboxPairs(call.result)
       IN  /\ Len(got) = Len(boxes)
           /\ \A k \in 1..Len(boxes) :
                 /\ got[k][1] = boxes[k].name
                 /\ ~boxes[k].hasValue => got[k][2] = sOn
                 /\ (boxes[k].hasValue /\ boxes[k].value = <<>>) => got[k][2] = sOn
                 /\ (boxes[k].hasValue /\ boxes[k].value # <<>>) => got[k][2] = boxes[k].value

C13_Witness ==
    /\ Returned("collect_payload_pairs")
    /\ Len(call.form.elems) = MaxFields
    /\ \A i \in 1..MaxFields : call.form.elems[i].type = "checkbox"
    /\ Len(CheckedBoxes(call.form.elems)) = 2
    /\ call.result = << <<nC, sOn>>, <<nC, <<"x">>>> >>

\* The positions of the named single selects none of whose options is
\* marked selected, in a form where no other element has the select's name
\* (so that the pairs of that name are the select's).
UnselectedSingleSelects(es) ==
    {i \in 1..Len(es) :
        /\ es[i].tag = "select" /\ es[i].name # <<>> /\ ~es[i].multiple
        /\ \A k \in 1..Len(es[i].options) : ~es[i].options[k].selected
        /\ \A j \in 1..Len(es) : j # i => es[j].name # es[i].name}

PairsNamed(pairs, name) == SelectSeq(pairs, LAMBDA p : p[1] = name)

\* An option's value as a browser submits it: the value attribute, or the
\* option's text when it has none.
SubmittedValue(o) == IF o.hasValue THEN o.value ELSE o.text

\* C14 as stated: every named single select with no option marked selected
\* gives exactly one pair, whose value is the first option's.
C14_UnselectedSelectGivesFirstOption ==
    Returned("collect_payload_pairs")
    => \A i \in UnselectedSingleSelects(call.form.elems) :
          LET sel == call.form.elems[i]
              got == PairsNamed(call.result, sel.name)
          IN  /\ Len(got) = 1
              /\ sel.options # <<>>
              /\ got[1][2] = SubmittedValue(sel.options[1])

\* C14 amended: every named single select with no option marked selected
\* and at least one option gives exactly one pair, whose value is the first
\* option's; one without any option gives no pair.
C14_UnselectedSelectWithOptions ==
    Returned("collect_payload_pairs")
    => \A i \in UnselectedSingleSelects(call.form.elems) :
          LET sel == call.form.elems[i]
              got == PairsNamed(call.result, sel.name)
          IN  IF sel.options = <<>> THEN got = <<>>
              ELSE got = << <<sel.name, SubmittedValue(sel.options[1])>> >>

C14_Witness ==
    /\ Returned("collect_payload_pairs")
    /\ Len(call.form.elems) = MaxFields
    /\ 1 \in UnselectedSingleSelects(call.form.elems)
    /\ Len(call.form.elems[1].options) = 2
    /\ Len(call.result) = MaxFields
    /\ Last(call.result) = <<nG, <<"1">>>>

\* The positions of the checked *_nomail checkboxes of a form, in order.
CheckedNomailBoxes(es) ==
    SelectSeq([i \in 1..Len(es) |-> i],
              LAMBDA i : /\ es[i].tag = "input" /\ es[i].type = "checkbox"
                         /\ es[i].checked
                         /\ EndsWith(es[i].name, sNomailSuffix))

\* The "user" fields with a non-empty value that are in the row of the box
\* at position i or after the box in the document.
Companions(es, i) ==
    {j \in 1..Len(es) :
        /\ es[j].tag = "input" /\ es[j].name = sUser
        /\ es[j].hasValue /\ es[j].value # <<>>
        /\ \/ es[i].row # 0 /\ es[j].row = es[i].row
           \/ j > i}

\* C15: find_blocked_rows_with_reasons returns one row per checked *_nomail
\* checkbox, in order, none dropped; no row has an empty address; the
\* address is "(unknown)" when no "user" field with a non-empty value is in
\* the row or further on in the document, and is otherwise "(unknown)" or
\* the value of such a field.
C15_AddressNeverEmpty ==
    Returned("find_blocked_rows_with_reasons")
    => LET es == call.form.elems
           boxes == CheckedNomailBoxes(es)
           rows == call.result
       IN  /\ Len(rows) = Len(boxes)
           /\ \A k \in 1..Len(boxes) :
                 /\ rows[k][1] = es[boxes[k]].name
                 /\ rows[k][2] # <<>>
                 /\ Companions(es, boxes[k]) = {} => rows[k][2] = sUnknown
                 /\ rows[k][2] # sUnknown
                    => \E j \in Companions(es, boxes[k]) : rows[k][2] = es[j].value

C15_Witness ==
    /\ Returned("find_blocked_rows_with_reasons")
    /\ Len(call.form.elems) = MaxFields
    /\ call.result = << <<aAlice \o sNomailSuffix, aAlice, "B">>,
                        <<aCarol \o sNomailSuffix, sUnknown, "B">> >>

\* Which call of process_letter the trace is of: the first, the second, ...
CallIndex ==
    IF LetterReturned \/ LetterRaised THEN Len(results) ELSE Len(results) + 1

\* The number of reason-B rows a letter's page has when the run starts.
InitialTargets(l) ==
    Len(ReasonBRows(MembersForm([tpl |-> srv[l].tpl,
                                 disabled |-> InitiallyDisabled(srv[l].tpl),
                                 tok |-> 0])))

\* The first call of process_letter was a live one that ended with a
\* verification showing no reason-B row left (it reported every target of
\* its page as cleared), and the trace is of the second call, for the same
\* letter.
SecondCallAfterFullSuccess ==
    /\ trace # <<>>
    /\ CallIndex = 2
    /\ letters[2] = letters[1]
    /\ ~dry_run
    /\ results[1].outcome = "returned"
    /\ results[1].count > 0
    /\ results[1].count = InitialTargets(letters[1])

\* C16: when process_letter ended with a verification showing no reason-B
\* row left, the next call for the same letter finds no target, sends no
\* submission (Members or Bounce) and reports zero.
C16_SecondRunFindsNothing ==
    SecondCallAfterFullSuccess
    => /\ frame.blocked_names = <<>>
       /\ frame.before = 0
       /\ MembersPosts = {}
       /\ BouncePosts = {}
       /\ Escalations = {}
       /\ LetterReturned
          => /\ Last(trace) = EvReturn(0)
             /\ results[2] = [letter |-> letters[2], outcome |-> "returned", count |-> 0]

C16_Witness ==
    /\ SecondCallAfterFullSuccess
    /\ results[1].count = 2
    /\ frame.form.present
    /\ Len(find_blocked_rows_with_reasons(frame.form)) = 0
    /\ trace = <<EvGet("members", PageUrl(letters[2])), EvReturn(0)>>

\* The score of a submit field as the contract words it: +5 for a
\* state-changing keyword, +3 more for "setmember", -10 for "search" or
\* "findmember", matched on the lower-cased name, a space, and the value.
ContractScore(e) ==
    LET text == Lower(e.name \o <<" ">> \o (IF e.hasValue THEN e.value ELSE <<>>))
        changing == \E w \in {sSubmitYourChanges, sSubmitLower, sChange, sApply,
                               sUpdate, sSetmember} : Contains(text, w)
        searching == Contains(text, sSearch) \/ Contains(text, sFindmember)
    IN  (IF changing THEN 5 ELSE 0) + (IF Contains(text, sSetmember) THEN 3 ELSE 0)
        + (IF searching THEN 0 - 10 ELSE 0)

\* The positions of the named submit inputs of a form.
NamedSubmits(es) ==
    {j \in 1..Len(es) : es[j].tag = "input" /\ es[j].type = "submit" /\ es[j].name # <<>>}

\* C17: pick_members_submit returns the name and value ("Submit" for an
\* empty value) of the named submit input of the highest score, and of the
\* first of them in the document when several have the highest score.
C17_HighestScoreFirstWins ==
    (Returned("pick_members_submit") /\ NamedSubmits(call.form.elems) # {})
    => LET es == call.form.elems
       IN  \E j \in NamedSubmits(es) :
              /\ call.result = <<es[j].name,
                                 IF es[j].value # <<>> THEN es[j].value ELSE sSubmitCap>>
              /\ \A k \in NamedSubmits(es) :
                    /\ ContractScore(es[k]) <= ContractScore(es[j])
                    /\ ContractScore(es[k]) = ContractScore(es[j]) => j <= k

C17_Witness ==
    /\ Returned("pick_members_submit")
    /\ Len(call.form.elems) = MaxFields
    /\ call.form.elems[1] = SubmitButton(sFindBtn, sSearchVal)
    /\ call.form.elems[2] = SubmitButton(<<"o", "k">>, <<"C", "h", "a", "n", "g", "e">>)
    /\ call.form.elems[3] = SubmitButton(<<"g", "o">>, <<"A", "P", "P", "L", "Y">>)
    /\ call.result = <<<<"o", "k">>, <<"C", "h", "a", "n", "g", "e">>>>

\* The first fetch of the letter got a page without a form; so did the
\* verification fetch after the first submission, and the one after the
\* retry.
FetchedNoForm == trace # <<>> /\ ~LetterRaised /\ ~frame.form.present

VerifiedNoForm == frame.remaining # -1 /\ ~frame.vform.present

ReverifiedNoForm == frame.remaining2 # -1 /\ ~frame.vform2.present

\* C18 as stated: a Members page without a form counts as a page with no
\* reason-B target and never as a failure, at the first fetch and at the
\* verification fetches.
C18_NoFormIsZeroTargets ==
    /\ FetchedNoForm => frame.before = 0 /\ Last(trace) = EvReturn(0)
    /\ VerifiedNoForm => frame.remaining = 0
    /\ ReverifiedNoForm => frame.remaining2 = 0

\* C18 amended: a Members page without a form is never a failure. At the
\* first fetch it counts as no target: zero is returned and nothing is
\* submitted. At a verification fetch it counts as nothing cleared (as
\* many targets left as before): after the first submission the escalator
\* is called with the first targets, after the retry the warning is logged
\* and zero returned. At the fetch after the escalation it ends the letter
\* with the warning and zero.
C18_NoFormIsNoFailure ==
    /\ FetchedNoForm
       => /\ frame.before = 0
          /\ trace = <<EvGet("members", PageUrl(frame.letter)), EvReturn(0)>>
    /\ VerifiedNoForm
       => /\ frame.remaining = frame.before
          /\ frame.before > 0
          /\ Len(trace) >= 4
          /\ trace[3] = EvGet("members", PageUrl(frame.letter))
          /\ trace[4] = EvEscalate(frame.blocked_addrs)
    /\ ReverifiedNoForm
       => /\ frame.remaining2 = frame.before
          /\ Last(trace) = EvReturn(0)
          /\ trace[Len(trace) - 1] = EvWarning
          /\ trace[Len(trace) - 2] = EvGet("members", PageUrl(frame.letter))
    /\ (EscalatorReported(TRUE) /\ LetterReturned /\ Cardinality(MembersPosts) = 1)
       => /\ Last(trace) = EvReturn(0)
          /\ trace[Len(trace) - 1] = EvWarning
          /\ trace[Len(trace) - 2] = EvGet("members", PageUrl(frame.letter))

C18_Witness ==
    /\ VerifiedNoForm
    /\ ReverifiedNoForm
    /\ frame.before = 2
    /\ frame.remaining = 2
    /\ frame.remaining2 = 2
    /\ Last(trace) = EvReturn(0)
    /\ Last(results).outcome = "returned"

\* C19: main's total is the sum of the counts of the letters processed so
\* far, and the total reported at the end that of all the letters; a letter
\* that failed counts zero; a letter's count is the number of its targets
\* in a dry run, the number verified as cleared in a live run, and never
\* more than the number of reason-B rows of its first page.
C19_TotalIsSumOfCounts ==
    /\ total = SumOfCounts(results)
    /\ pc = "done" => Len(results) = NumLetters
    /\ \A i \in 1..Len(results) :
          /\ results[i].count >= 0
          /\ results[i].outcome # "returned" => results[i].count = 0
    /\ LetterReturned
       => /\ Last(results).count = Last(trace).value
          /\ Last(results).count <= Len(ReasonBRows(frame.form))
          /\ dry_run => Last(results).count = Len(ReasonBRows(frame.form))
          /\ (~dry_run /\ Last(results).count > 0)
             => \/ Verified /\ Last(results).count
                                 = frame.before - Len(ReasonBRows(frame.vform))
                \/ Reverified /\ Last(results).count
                                   = frame.before - Len(ReasonBRows(frame.vform2))

C19_Witness ==
    /\ pc = "done"
    /\ ~dry_run
    /\ \A i \in 1..NumLetters : results[i].count = 1
    /\ total = NumLetters

\* The retry has been sent: the second Members submission of the trace.
RetrySent == Cardinality(MembersPosts) = 2

RetryPost == trace[CHOOSE i \in MembersPosts : \A j \in MembersPosts : j <= i]

\* C20: the retry is built from the page fetched after the escalation
\* alone: its pairs are those of that page's form without the checkboxes of
\* that form's reason-B rows (whatever the names collected at the first
\* fetch), then that form's submit control; its URL is that form's action
\* resolved against that fetch's URL.
C20_RetryBuiltFromFreshForm ==
    RetrySent
    => LET form2 == frame.form2
           names2 == Range(Column(ReasonBRows(form2), 1))
           fresh == collect_payload_pairs(form2)
           body == RetryPost.body
       IN  /\ form2.present
           /\ body = Append(SelectSeq(fresh, LAMBDA p : p[1] \notin names2),
                            pick_members_submit(form2))
           /\ \A n \in names2 : ~HasPair(SubSeq(body, 1, Len(body) - 1), n)
           /\ PairsNamed(body, sCsrf) = PairsNamed(fresh, sCsrf)
           /\ RetryPost.url
                 = absolutize_action(form2.action,
                                     ResponseUrl(srv[frame.letter], PageUrl(frame.letter)))

C20_Witness ==
    /\ RetrySent
    /\ frame.blocked_names = <<aAlice \o sNomailSuffix>>
    /\ Column(ReasonBRows(frame.form2), 1)
         = <<aAlice \o sNomailSuffix, aBob \o sNomailSuffix>>
    /\ ~HasPair(RetryPost.body, aBob \o sNomailSuffix)
    /\ PairsNamed(RetryPost.body, sCsrf) # PairsNamed(frame.pairs, sCsrf)
    /\ Last(trace) = EvReturn(1)

\* The position in the trace of the fetch of the Bounce page, 0 when the
\* escalator has not fetched it; and the fetch got an answer.
BounceFetch ==
    LET gets == {i \in 1..Len(trace) : trace[i] = EvGet("bounce", bounce_url)}
    IN  IF gets = {} THEN 0 ELSE CHOOSE i \in gets : \A j \in gets : i <= j

BounceFetched ==
    /\ BounceFetch # 0
    /\ BounceFetch < Len(trace) => trace[BounceFetch + 1].ev # "raise"

\* The values of the "user" fields of a form that are target addresses,
\* in document order, and those of the "user" pairs of a payload.
TargetedUsers(form, targets) ==
    LET users == SelectSeq(form.elems,
                           LAMBDA e : /\ e.tag = "input" /\ e.name = sUser
                                      /\ e.hasValue /\ e.value # <<>>
                                      /\ e.value \in Range(targets))
    IN  [k \in 1..Len(users) |-> users[k].value]

UsersOf(pairs) == Column(PairsNamed(pairs, sUser), 2)

\* C21: clear_bounces_for_users reports no change and sends no Bounce
\* submission when the Bounce page has no form or none of its "user"
\* fields has the value of a target address; a submission it sends holds
\* the "user" fields whose value is a target address and no other.
C21_BounceClearOnlyTargets ==
    BounceFetched
    => LET targets == trace[BounceFetch - 1].args
           matched == TargetedUsers(frame.bform, targets)
       IN  /\ trace[BounceFetch - 1].ev = "clear_bounces_for_users"
           /\ IF ~frame.bform.present \/ matched = <<>>
              THEN /\ BouncePosts = {}
                   /\ Len(trace) > BounceFetch
                   /\ trace[BounceFetch + 1] = EvEscalated(FALSE)
                   /\ ~EscalatorReported(TRUE)
                   /\ MembersPosts = {BounceFetch - 3}
                   /\ Last(trace) = EvReturn(0)
              ELSE /\ UsersOf(frame.bpairs) = matched
                   /\ \A a \in Range(UsersOf(frame.bpairs)) : a \in Range(targets)
                   /\ \A i \in BouncePosts :
                         /\ i = BounceFetch + 1
                         /\ trace[i].body = frame.bpairs
                         /\ trace[i].enc = "multipart"
                   /\ EscalatorReported(TRUE) => BouncePosts # {}

C21_Witness ==
    /\ BounceFetched
    /\ BouncePosts # {}
    /\ trace[BounceFetch - 1].args = <<aAlice>>
    /\ \E j \in 1..Len(frame.bform.elems) :
          frame.bform.elems[j].name = sUser /\ frame.bform.elems[j].value = aBob
    /\ \A i \in BouncePosts : UsersOf(trace[i].body) = <<aAlice>>
    /\ EscalatorReported(TRUE)

\* C22: whatever the server answers, one call of process_letter sends at
\* most two Members submissions and at most one Bounce submission, and the
\* second Members submission comes only after a Bounce submission of the
\* same call.
C22_AtMostTwoSubmissions ==
    /\ Cardinality(MembersPosts) <= 2
    /\ Cardinality(BouncePosts) <= 1
    /\ \A i, j \in MembersPosts :
          i < j => \E b \in BouncePosts : i < b /\ b < j
    /\ \A b \in BouncePosts : \E i \in MembersPosts : i < b
    /\ \A i \in 1..Len(trace) : trace[i].ev = "POST" => i \in MembersPosts \cup BouncePosts

C22_Witness ==
    /\ Cardinality(MembersPosts) = 2
    /\ Cardinality(BouncePosts) = 1
    /\ LetterReturned
    /\ Len(results) = NumLetters
====
